---- MODULE Spec2Model ----
(***************************************************************************)
(* Matchmaking queue (queueManager.js), match engine (matchManager.js) and *)
(* the connection dispatch around them (server.js) of the mini-game        *)
(* WebSocket server, as one state machine.                                 *)
(*                                                                         *)
(* Node runs every handler to its first real suspension (an awaited SQL    *)
(* query); an await of an async method that performs no I/O resumes in the *)
(* same macrotask.  One action is therefore one handler up to its first    *)
(* SQL await, and the rest of endMatch is the action EndMatchResume.       *)
(*                                                                         *)
(* One session code is modelled; a connection is identified with the       *)
(* userId of its URL (connection c belongs to student c).                  *)
(***************************************************************************)
EXTENDS Integers, Sequences, FiniteSets, Bags, TLC

\* ----------------------------------------------------------------- bounds
NumPlayers == 3       \* students (and connections) of the session
MaxMatches == 2       \* matches created in one behaviour
MaxRounds == 2        \* round starts per match
MaxSpells == 2        \* spells cast per match
MaxTimers == 1        \* pending timers of one kind per match beyond roundTimer
MaxPendingEnds == 2   \* endMatch calls suspended on storage at one time
MaxStat == 20         \* largest combat stat the damage table is checked for
MaxCards == 3         \* card answers per player in the card phase

\* ------------------------------------------------------ program constants
InitialHp == 200
BaseDamage == 5
ArenaMidX == 400
ArenaMaxX == 800
ArenaMaxY == 600
P1StartX == 100
P2StartX == 700
StartY == 300
CardBonus == 5
CardsPerPlayer == 3

Players == 1..NumPlayers
Conns == 1..NumPlayers
ConnUser(c) == c
MatchIds == 1..MaxMatches
SpellIds == 1..MaxSpells
Sides == {"player1", "player2"}
SpellTypes == {"fire_arrow", "water_spell"}
\* combat stats a student can have reached in the card phase (5 + 5k)
StatValues == {100, 200}
\* the correct answers behind a combat stat
CardsFor(stat) == (stat - BaseDamage) \div CardBonus
CardInputs == {"correct", "wrong", "unknown_question"}
\* The NaN that Math.min and Math.max return when an argument is no number;
\* it lies below every number of the model, and every comparison of the
\* claims with it fails as a comparison with NaN does.
NaN == 0 - 1000000
\* positions clients report; the last has no x
MoveInputs == {[x |-> 0 - 50, y |-> 700], [x |-> 900, y |-> 0 - 10],
               [x |-> NaN, y |-> 300]}

Max(a, b) == IF a >= b THEN a ELSE b
Min(a, b) == IF a <= b THEN a ELSE b
Other(side) == IF side = "player1" THEN "player2" ELSE "player1"

VARIABLES
  conns,          \* connection c: readyState OPEN?, ws.matchId, ws.playerId
  players,        \* session.players: the tournament records
  sessionActive,  \* activeSessions has the session
  queue,          \* queues.get(sessionCode)
  retryTimers,    \* pending setTimeout(tryMatch, 100)
  matches,        \* every match object created, by id
  activeMatches,  \* ids registered in activeMatches
  sched,          \* per match: pending timers other than match.roundTimer
  spellsCast,     \* per match: spells created so far (the next spell id)
  pendingEnds,    \* endMatch calls suspended at their first SQL await
  out,            \* messages sent by the last step, in order
  raised,         \* how the last step ended: "none", "caught", "unhandled"
  hist            \* per match: write-backs, persists, match-end broadcasts and
                  \* updates of the stored session to 'completed'

qvars == <<queue, retryTimers>>
mvars == <<matches, activeMatches, sched, spellsCast>>
vars == <<conns, players, sessionActive, queue, retryTimers, matches,
          activeMatches, sched, spellsCast, pendingEnds, out, raised, hist>>

\* ------------------------------------------------------------- data shapes
NoPlayer ==
  [present |-> FALSE, ws |-> 0, hp |-> 0, damage |-> 0, eliminated |-> FALSE,
   inQueue |-> FALSE, matchId |-> 0, damageDealt |-> 0, damageReceived |-> 0,
   cardsAnswered |-> 0]

NewPlayer(ws, stat) ==
  [present |-> TRUE, ws |-> ws, hp |-> InitialHp, damage |-> stat,
   eliminated |-> FALSE, inQueue |-> FALSE, matchId |-> 0,
   damageDealt |-> 0, damageReceived |-> 0, cardsAnswered |-> 0]

\* x || d of JavaScript for numbers
OrElse(x, d) == IF x = 0 THEN d ELSE x

\* ws.readyState === WebSocket.OPEN, in the connection table cs
IsOpen(cs, c) == c \in Conns /\ cs[c].open

Init ==
  /\ conns = [c \in Conns |-> [open |-> TRUE, matchId |-> 0, playerId |-> "none"]]
  /\ players \in {f \in [Players -> [present : {TRUE}, ws : Conns, hp : {InitialHp},
                                    damage : StatValues, eliminated : {FALSE},
                                    inQueue : {FALSE}, matchId : {0},
                                    damageDealt : {0}, damageReceived : {0},
                                    cardsAnswered : {CardsFor(s) : s \in StatValues}]] :
                    \A p \in Players : /\ f[p].ws = p
                                        /\ f[p].cardsAnswered = CardsFor(f[p].damage)}
  /\ sessionActive = TRUE
  /\ queue = <<>>
  /\ retryTimers = 0
  /\ matches = <<>>
  /\ activeMatches = {}
  /\ sched = <<>>
  /\ spellsCast = <<>>
  /\ pendingEnds = EmptyBag
  /\ out = <<>>
  /\ raised = "none"
  /\ hist = <<>>

\* ------------------------------------------------------------ match engine
NewSide(entry, rec, x) ==
  [id |-> entry.studentId, ws |-> entry.ws,
   hp |-> IF rec.present THEN OrElse(rec.hp, InitialHp) ELSE InitialHp,
   damage |-> OrElse(entry.damage, BaseDamage),
   position |-> [x |-> x, y |-> StartY], ready |-> FALSE,
   damageDealt |-> 0, damageReceived |-> 0]

\* createMatch: the match object for two queue entries
CreateMatch(id, e1, e2, pl) ==
  [id |-> id,
   player1 |-> NewSide(e1, pl[e1.studentId], P1StartX),
   player2 |-> NewSide(e2, pl[e2.studentId], P2StartX),
   currentRound |-> 0, roundTimer |-> "null", status |-> "waiting",
   activeSpells |-> <<>>]

\* createMatch: ws.matchId / ws.playerId of the two connections (player2 last)
TagConns(cs, id, e1, e2) ==
  LET c1 == [cs EXCEPT ![e1.ws] = [@ EXCEPT !.matchId = id, !.playerId = "player1"]]
  IN  [c1 EXCEPT ![e2.ws] = [@ EXCEPT !.matchId = id, !.playerId = "player2"]]

Registered(m) == m \in activeMatches

ClampCoord(v, lo, hi) == IF v = NaN THEN NaN ELSE Max(lo, Min(hi, v))

ValidatePosition(pos, side) ==
  [x |-> ClampCoord(pos.x, IF side = "player1" THEN 0 ELSE ArenaMidX,
                           IF side = "player1" THEN ArenaMidX ELSE ArenaMaxX),
   y |-> ClampCoord(pos.y, 0, ArenaMaxY)]

CalculateSpellDamage_ceil(type, base) ==
  IF type = "water_spell" THEN (base * 3 + 1) \div 2 ELSE base

CalculateSpellDamage(type, base) ==
  IF type = "water_spell" THEN (base * 3) \div 2 ELSE base

ApplyDamage_noClamp(hp, dmg) == hp - dmg

ApplyDamage(hp, dmg) == Max(0, hp - dmg)

ToBoth_firstOnly(cs, match, msg) ==
  IF IsOpen(cs, match.player1.ws)
  THEN <<[msg EXCEPT !.to = match.player1.ws]>> ELSE <<>>

\* the two sends "if readyState === OPEN" of a broadcast, player1 first
ToBoth(cs, match, msg) ==
  (IF IsOpen(cs, match.player1.ws)
   THEN <<[msg EXCEPT !.to = match.player1.ws]>> ELSE <<>>)
  \o (IF IsOpen(cs, match.player2.ws)
      THEN <<[msg EXCEPT !.to = match.player2.ws]>> ELSE <<>>)

StartRound_noTimer(cs, match, sc) ==
  LET m1 == [match EXCEPT !.status = "active",
                          !.currentRound = @ + 1,
                          !.player1.ready = FALSE,
                          !.player2.ready = FALSE,
                          !.activeSpells = <<>>]
  IN  [match |-> m1,
       sc |-> sc,
       msgs |-> ToBoth(cs, m1, [to |-> 0, type |-> "round-start", match |-> m1.id,
                                round |-> m1.currentRound,
                                player1Hp |-> m1.player1.hp,
                                player2Hp |-> m1.player2.hp])]

\* startRound on a registered match; sc is the match's entry of sched
StartRound(cs, match, sc) ==
  LET m1 == [match EXCEPT !.status = "active",
                          !.currentRound = @ + 1,
                          !.player1.ready = FALSE,
                          !.player2.ready = FALSE,
                          !.activeSpells = <<>>,
                          !.roundTimer = "armed"]
  IN  [match |-> m1,
       \* a timer still pending in roundTimer is not cleared: it stays pending
       sc |-> IF match.roundTimer = "armed"
              THEN [sc EXCEPT !.endRound = @ + 1] ELSE sc,
       msgs |-> ToBoth(cs, m1, [to |-> 0, type |-> "round-start", match |-> m1.id,
                                round |-> m1.currentRound,
                                player1Hp |-> m1.player1.hp,
                                player2Hp |-> m1.player2.hp])]

WinnerSide(match, winnerId) ==
  IF winnerId = match.player1.id THEN "player1" ELSE "player2"

\* endMatch up to its first await: status, timer, tournament records
EndMatchMatch(match) ==
  [match EXCEPT !.status = "completed",
                !.roundTimer = IF @ = "armed" THEN "dead" ELSE @]

EndMatchRecords_loserKeepsHp(match, pl, winnerId, hasSession) ==
  LET winner == match[WinnerSide(match, winnerId)]
      loser == match[Other(WinnerSide(match, winnerId))]
      pl1 == IF pl[winner.id].present
             THEN [pl EXCEPT ![winner.id].hp = winner.hp,
                             ![winner.id].damageDealt = @ + winner.damageDealt]
             ELSE pl
      pl2 == IF pl1[loser.id].present
             THEN [pl1 EXCEPT ![loser.id].hp = loser.hp,
                              ![loser.id].damageReceived = @ + loser.damageReceived,
                              ![loser.id].eliminated = TRUE]
             ELSE pl1
  IN  IF hasSession THEN pl2 ELSE pl

EndMatchRecords(match, pl, winnerId, hasSession) ==
  LET winner == match[WinnerSide(match, winnerId)]
      loser == match[Other(WinnerSide(match, winnerId))]
      pl1 == IF pl[winner.id].present
             THEN [pl EXCEPT ![winner.id].hp = winner.hp,
                             ![winner.id].damageDealt = @ + winner.damageDealt]
             ELSE pl
      pl2 == IF pl1[loser.id].present
             THEN [pl1 EXCEPT ![loser.id].hp = 0,
                              ![loser.id].damageReceived = @ + loser.damageReceived,
                              ![loser.id].eliminated = TRUE]
             ELSE pl1
  IN  IF hasSession THEN pl2 ELSE pl

\* the suspended rest of an endMatch call
Suspended(m, winnerId, kind, ws, hasSession) ==
  [match |-> m, winnerId |-> winnerId, kind |-> kind, ws |-> ws,
   session |-> hasSession]

\* endRound on a registered match
EndRound(cs, match, sc) ==
  LET m1 == [match EXCEPT !.roundTimer = "null", !.status = "waiting"]
      alive == m1.player1.hp > 0 /\ m1.player2.hp > 0
  IN  [match |-> m1,
       alive |-> alive,
       sc |-> IF alive THEN [sc EXCEPT !.startRound = @ + 1] ELSE sc,
       winnerId |-> IF m1.player1.hp > 0 THEN m1.player1.id ELSE m1.player2.id,
       msgs |-> ToBoth(cs, m1, [to |-> 0, type |-> "round-end", match |-> m1.id,
                                round |-> m1.currentRound,
                                player1Hp |-> m1.player1.hp,
                                player2Hp |-> m1.player2.hp])]

\* ------------------------------------------------------------------- queue
InQueue_never(q, sid) == FALSE

InQueue(q, sid) == \E i \in DOMAIN q : q[i].studentId = sid

QueueIndex(q, sid) == CHOOSE i \in DOMAIN q :
  q[i].studentId = sid /\ \A j \in 1..(i - 1) : q[j].studentId # sid

RemoveAt(q, i) == SubSeq(q, 1, i - 1) \o SubSeq(q, i + 1, Len(q))

FirstPair_swapped(q) ==
  [player1 |-> q[2], player2 |-> q[1], rest |-> SubSeq(q, 3, Len(q))]

\* the two entries tryMatch takes: queue.shift() twice
FirstPair(q) == [player1 |-> q[1], player2 |-> q[2], rest |-> SubSeq(q, 3, Len(q))]

ErrorMsg(ws, text) == [to |-> ws, type |-> "error", message |-> text]

MatchFound(cs, id, me, opp, side) ==
  IF IsOpen(cs, me.ws)
  THEN <<[to |-> me.ws, type |-> "match-found", match |-> id,
          opponentId |-> opp.studentId, side |-> side]>>
  ELSE <<>>

Reject(ws, text) ==
  /\ out' = <<ErrorMsg(ws, text)>>
  /\ raised' = "none"
  /\ UNCHANGED <<conns, players, sessionActive, qvars, mvars, pendingEnds, hist>>

Ignore ==
  /\ out' = <<>>
  /\ raised' = "none"
  /\ UNCHANGED <<conns, players, sessionActive, qvars, mvars, pendingEnds, hist>>

ClearInQueue(pl, sid) ==
  IF sessionActive /\ pl[sid].present THEN [pl EXCEPT ![sid].inQueue = FALSE] ELSE pl

\* tryMatch on a queue q of two or more entries, after the sends pre
TryMatch(q, pl, pre) ==
  LET pair == FirstPair(q)
      e1 == pair.player1
      e2 == pair.player2
      id == Len(matches) + 1
      pl2 == ClearInQueue(ClearInQueue(pl, e1.studentId), e2.studentId)
      cs == TagConns(conns, id, e1, e2)
  IN  /\ Len(matches) < MaxMatches
      /\ queue' = pair.rest
      /\ retryTimers' = IF Len(pair.rest) >= 2 THEN retryTimers + 1 ELSE retryTimers
      /\ players' = pl2
      /\ matches' = Append(matches, CreateMatch(id, e1, e2, pl2))
      /\ activeMatches' = activeMatches \cup {id}
      /\ sched' = Append(sched, [endRound |-> 0, startRound |-> 0])
      /\ spellsCast' = Append(spellsCast, 0)
      /\ hist' = Append(hist, [writes |-> 0, persists |-> 0, ends |-> 0, completes |-> 0])
      /\ conns' = cs
      /\ out' = pre \o MatchFound(cs, id, e1, e2, "player1")
                    \o MatchFound(cs, id, e2, e1, "player2")
      /\ raised' = "none"
      /\ UNCHANGED <<sessionActive, pendingEnds>>

ShouldPair_three(q) == Len(q) >= 3

\* the test before tryMatch, in enterQueue and in tryMatch itself
ShouldPair(q) == Len(q) >= 2

IsEliminated_never(rec) == FALSE

\* the eligibility check of enterQueue
IsEliminated(rec) == rec.eliminated \/ rec.hp <= 0

\* enter-queue from connection ws with payload studentId sid
EnterQueue(ws, sid) ==
  /\ IsOpen(conns, ws)
  /\ IF InQueue(queue, sid) THEN Reject(ws, "Already in queue")
     ELSE IF ~sessionActive THEN Reject(ws, "Session not found")
     ELSE IF ~players[sid].present THEN Reject(ws, "Player not found in session")
     ELSE IF IsEliminated(players[sid])
     THEN Reject(ws, "You have been eliminated from the tournament")
     ELSE LET pl1 == [players EXCEPT ![sid].matchId = 0, ![sid].inQueue = TRUE]
              q1 == Append(queue, [studentId |-> sid, ws |-> ws,
                                   damage |-> players[sid].damage,
                                   hp |-> players[sid].hp])
              joined == <<[to |-> ws, type |-> "queue-joined", position |-> Len(q1)]>>
          IN  IF ShouldPair(q1)
              THEN TryMatch(q1, pl1, joined)
              ELSE /\ queue' = q1
                   /\ players' = pl1
                   /\ out' = joined
                   /\ raised' = "none"
                   /\ UNCHANGED <<conns, sessionActive, retryTimers, mvars,
                                  pendingEnds, hist>>

\* card-answered from connection ws with payload studentId sid; the
\* statistics then sent to the teacher are left out
CardAnswer(ws, sid, answer) ==
  /\ IsOpen(conns, ws)
  /\ IF ~sessionActive \/ ~players[sid].present \/ answer = "unknown_question"
     THEN Ignore
     ELSE LET rec == [players[sid] EXCEPT
                        !.cardsAnswered = @ + 1,
                        !.damage = IF answer = "correct" THEN @ + CardBonus ELSE @]
          IN  /\ players[sid].cardsAnswered < MaxCards
              /\ players' = [players EXCEPT ![sid] = rec]
              /\ out' = <<[to |-> ws, type |-> "card-result",
                           isCorrect |-> (answer = "correct"),
                           currentDamage |-> rec.damage,
                           cardsRemaining |-> CardsPerPlayer - rec.cardsAnswered]>>
                        \o IF rec.cardsAnswered = CardsPerPlayer
                           THEN <<[to |-> ws, type |-> "cards-complete",
                                   finalDamage |-> rec.damage]>>
                           ELSE <<>>
              /\ raised' = "none"
              /\ UNCHANGED <<conns, sessionActive, qvars, mvars, pendingEnds, hist>>

\* removeFromQueue(studentId)
RemoveFromQueue(cs, q, pl, sid) ==
  IF InQueue(q, sid)
  THEN LET i == QueueIndex(q, sid)
       IN  [queue |-> RemoveAt(q, i),
            players |-> ClearInQueue(pl, sid),
            msgs |-> IF IsOpen(cs, q[i].ws)
                     THEN <<[to |-> q[i].ws, type |-> "queue-left"]>> ELSE <<>>]
  ELSE [queue |-> q, players |-> pl, msgs |-> <<>>]

\* gameManager.handleDisconnect: the record is deleted, and the session with
\* the last record
DropPlayer(pl, uid) == [pl EXCEPT ![uid] = NoPlayer]

SessionLeft(pl) == \E p \in Players : pl[p].present

NoteWrite(h, m, hasSession) ==
  IF hasSession THEN [h EXCEPT ![m].writes = @ + 1] ELSE h

\* the close event of connection ws: handleDisconnection
Disconnect(ws) ==
  /\ IsOpen(conns, ws)
  /\ LET cs == [conns EXCEPT ![ws].open = FALSE]
         uid == ConnUser(ws)
         rm == RemoveFromQueue(cs, queue, players, uid)
         m == conns[ws].matchId
     IN  /\ conns' = cs
         /\ queue' = rm.queue
         /\ out' = rm.msgs
         /\ raised' = "none"
         /\ UNCHANGED <<retryTimers, activeMatches, sched, spellsCast>>
         /\ IF m # 0 /\ Registered(m)
            THEN LET match == matches[m]
                     opponentId == IF conns[ws].playerId = "player1"
                                   THEN match.player2.id ELSE match.player1.id
                 IN  /\ BagCardinality(pendingEnds) < MaxPendingEnds
                     /\ matches' = [matches EXCEPT ![m] = EndMatchMatch(match)]
                     /\ players' = EndMatchRecords(match, rm.players, opponentId,
                                                   sessionActive)
                     /\ pendingEnds' = pendingEnds (+) SetToBag(
                          {Suspended(m, opponentId, "disconnect", ws, sessionActive)})
                     /\ hist' = NoteWrite(hist, m, sessionActive)
                     /\ UNCHANGED sessionActive
            ELSE /\ players' = IF sessionActive THEN DropPlayer(rm.players, uid)
                               ELSE rm.players
                 /\ sessionActive' = (sessionActive /\ SessionLeft(players'))
                 /\ UNCHANGED <<matches, pendingEnds, hist>>

\* ------------------------------------------------------- inbound actions
SideOf(ws) == conns[ws].playerId

\* round-ready from ws naming match m
RoundReady(ws, m) ==
  /\ IsOpen(conns, ws)
  /\ IF ~Registered(m) \/ SideOf(ws) \notin Sides THEN Ignore
     ELSE LET m1 == [matches[m] EXCEPT ![SideOf(ws)].ready = TRUE]
          IN  IF m1.player1.ready /\ m1.player2.ready
              THEN LET sr == StartRound(conns, m1, sched[m])
                   IN  /\ m1.currentRound < MaxRounds
                       /\ sr.sc.endRound <= MaxTimers
                       /\ matches' = [matches EXCEPT ![m] = sr.match]
                       /\ sched' = [sched EXCEPT ![m] = sr.sc]
                       /\ out' = sr.msgs
                       /\ raised' = "none"
                       /\ UNCHANGED <<conns, players, sessionActive, qvars,
                                      activeMatches, spellsCast, pendingEnds, hist>>
              ELSE /\ matches' = [matches EXCEPT ![m] = m1]
                   /\ out' = <<>>
                   /\ raised' = "none"
                   /\ UNCHANGED <<conns, players, sessionActive, qvars,
                                  activeMatches, sched, spellsCast, pendingEnds, hist>>

PlayerMove_anyStatus(ws, m, pos) ==
  /\ IsOpen(conns, ws)
  /\ IF ~Registered(m) \/ SideOf(ws) \notin Sides
     THEN Ignore
     ELSE LET side == SideOf(ws)
              m1 == [matches[m] EXCEPT ![side].position = ValidatePosition(pos, side)]
              opp == m1[Other(side)]
          IN  /\ matches' = [matches EXCEPT ![m] = m1]
              /\ out' = IF IsOpen(conns, opp.ws)
                        THEN <<[to |-> opp.ws, type |-> "opponent-move", match |-> m,
                                position |-> m1[side].position, playerId |-> side]>>
                        ELSE <<>>
              /\ raised' = "none"
              /\ UNCHANGED <<conns, players, sessionActive, qvars, activeMatches,
                             sched, spellsCast, pendingEnds, hist>>

\* player-move from ws naming match m
PlayerMove(ws, m, pos) ==
  /\ IsOpen(conns, ws)
  /\ IF ~Registered(m) \/ matches[m].status # "active" \/ SideOf(ws) \notin Sides
     THEN Ignore
     ELSE LET side == SideOf(ws)
              m1 == [matches[m] EXCEPT ![side].position = ValidatePosition(pos, side)]
              opp == m1[Other(side)]
          IN  /\ matches' = [matches EXCEPT ![m] = m1]
              /\ out' = IF IsOpen(conns, opp.ws)
                        THEN <<[to |-> opp.ws, type |-> "opponent-move", match |-> m,
                                position |-> m1[side].position, playerId |-> side]>>
                        ELSE <<>>
              /\ raised' = "none"
              /\ UNCHANGED <<conns, players, sessionActive, qvars, activeMatches,
                             sched, spellsCast, pendingEnds, hist>>

\* spell-cast from ws naming match m
SpellCast(ws, m, type) ==
  /\ IsOpen(conns, ws)
  /\ IF ~Registered(m) \/ matches[m].status # "active" \/ SideOf(ws) \notin Sides
     THEN Ignore
     ELSE LET side == SideOf(ws)
              match == matches[m]
              spell == [id |-> spellsCast[m] + 1, type |-> type,
                        damage |-> CalculateSpellDamage(type, match[side].damage),
                        owner |-> side]
              m1 == [match EXCEPT !.activeSpells = Append(@, spell)]
          IN  /\ spellsCast[m] < MaxSpells
              /\ matches' = [matches EXCEPT ![m] = m1]
              /\ spellsCast' = [spellsCast EXCEPT ![m] = @ + 1]
              /\ out' = ToBoth(conns, m1, [to |-> 0, type |-> "spell-cast",
                                           match |-> m, spell |-> spell])
              /\ raised' = "none"
              /\ UNCHANGED <<conns, players, sessionActive, qvars, activeMatches,
                             sched, pendingEnds, hist>>

HasSpell(match, spellId) ==
  \E i \in DOMAIN match.activeSpells : match.activeSpells[i].id = spellId

SpellIndex(match, spellId) ==
  CHOOSE i \in DOMAIN match.activeSpells :
    /\ match.activeSpells[i].id = spellId
    /\ \A j \in 1..(i - 1) : match.activeSpells[j].id # spellId

ApplyHit_keepSpell(match, spellId, hitSide) ==
  LET spell == match.activeSpells[SpellIndex(match, spellId)]
      m1 == [match EXCEPT ![hitSide].hp = ApplyDamage(@, spell.damage)]
      m2 == [m1 EXCEPT ![spell.owner].damageDealt = @ + spell.damage]
  IN  [m2 EXCEPT ![hitSide].damageReceived = @ + spell.damage]

\* handleSpellHit once the spell and the hit side are found
ApplyHit(match, spellId, hitSide) ==
  LET i == SpellIndex(match, spellId)
      spell == match.activeSpells[i]
      m1 == [match EXCEPT !.activeSpells = RemoveAt(@, i),
                          ![hitSide].hp = ApplyDamage(@, spell.damage)]
      m2 == [m1 EXCEPT ![spell.owner].damageDealt = @ + spell.damage]
  IN  [m2 EXCEPT ![hitSide].damageReceived = @ + spell.damage]

\* spell-hit from ws naming match m, spell spellId and the side hit
SpellHit(ws, m, spellId, hitPlayerId) ==
  /\ IsOpen(conns, ws)
  /\ IF ~Registered(m) THEN Ignore
     ELSE IF ~HasSpell(matches[m], spellId) \/ hitPlayerId \notin Sides THEN Ignore
     ELSE LET match == matches[m]
              spell == match.activeSpells[SpellIndex(match, spellId)]
              m1 == ApplyHit(match, spellId, hitPlayerId)
              casterId == m1[spell.owner].id
              lethal == m1[hitPlayerId].hp <= 0
              msgs == ToBoth(conns, m1,
                        [to |-> 0, type |-> "spell-hit", match |-> m,
                         spellId |-> spellId, target |-> hitPlayerId,
                         damage |-> spell.damage,
                         remainingHp |-> m1[hitPlayerId].hp,
                         oldHp |-> match[hitPlayerId].hp,
                         player1Hp |-> m1.player1.hp,
                         player2Hp |-> m1.player2.hp])
          IN  /\ out' = msgs
              /\ raised' = "none"
              /\ UNCHANGED <<conns, sessionActive, qvars, activeMatches, sched,
                             spellsCast>>
              /\ IF lethal
                 THEN /\ BagCardinality(pendingEnds) < MaxPendingEnds
                      /\ matches' = [matches EXCEPT ![m] = EndMatchMatch(m1)]
                      /\ players' = EndMatchRecords(m1, players, casterId,
                                                    sessionActive)
                      /\ pendingEnds' = pendingEnds (+) SetToBag(
                           {Suspended(m, casterId, "hit", ws, sessionActive)})
                      /\ hist' = NoteWrite(hist, m, sessionActive)
                 ELSE /\ matches' = [matches EXCEPT ![m] = m1]
                      /\ UNCHANGED <<players, pendingEnds, hist>>

\* --------------------------------------------------------------- timers
\* the body of the round timer: endRound(m), with sc the timers left pending
RunEndRound(m, match, sc) ==
  IF ~Registered(m)
  THEN /\ matches' = [matches EXCEPT ![m] = match]
       /\ sched' = [sched EXCEPT ![m] = sc]
       /\ out' = <<>>
       /\ UNCHANGED <<players, pendingEnds, hist>>
  ELSE LET er == EndRound(conns, match, sc)
       IN  /\ out' = er.msgs
           /\ sched' = [sched EXCEPT ![m] = er.sc]
           /\ er.sc.startRound <= MaxTimers
           /\ IF er.alive
              THEN /\ matches' = [matches EXCEPT ![m] = er.match]
                   /\ UNCHANGED <<players, pendingEnds, hist>>
              ELSE /\ BagCardinality(pendingEnds) < MaxPendingEnds
                   /\ matches' = [matches EXCEPT ![m] = EndMatchMatch(er.match)]
                   /\ players' = EndMatchRecords(er.match, players, er.winnerId,
                                                 sessionActive)
                   /\ pendingEnds' = pendingEnds (+) SetToBag(
                        {Suspended(m, er.winnerId, "timer", 0, sessionActive)})
                   /\ hist' = NoteWrite(hist, m, sessionActive)

\* the timer held in match.roundTimer fires.  Timers armed by earlier round
\* starts have the same delay and fire first.
FireRoundTimer(m) ==
  /\ m \in DOMAIN matches
  /\ matches[m].roundTimer = "armed"
  /\ sched[m].endRound = 0
  /\ RunEndRound(m, [matches[m] EXCEPT !.roundTimer = "dead"], sched[m])
  /\ raised' = "none"
  /\ UNCHANGED <<conns, sessionActive, qvars, activeMatches, spellsCast>>

\* a round timer that a later startRound left pending fires
FireStaleRoundTimer(m) ==
  /\ m \in DOMAIN matches
  /\ sched[m].endRound > 0
  /\ RunEndRound(m, matches[m], [sched[m] EXCEPT !.endRound = @ - 1])
  /\ raised' = "none"
  /\ UNCHANGED <<conns, sessionActive, qvars, activeMatches, spellsCast>>

\* the deferred startRound of endRound fires
FireStartTimer(m) ==
  /\ m \in DOMAIN matches
  /\ sched[m].startRound > 0
  /\ LET sc == [sched[m] EXCEPT !.startRound = @ - 1]
     IN  IF ~Registered(m)
         THEN /\ sched' = [sched EXCEPT ![m] = sc]
              /\ out' = <<>>
              /\ UNCHANGED matches
         ELSE LET sr == StartRound(conns, matches[m], sc)
              IN  /\ matches[m].currentRound < MaxRounds
                  /\ sr.sc.endRound <= MaxTimers
                  /\ matches' = [matches EXCEPT ![m] = sr.match]
                  /\ sched' = [sched EXCEPT ![m] = sr.sc]
                  /\ out' = sr.msgs
  /\ raised' = "none"
  /\ UNCHANGED <<conns, players, sessionActive, qvars, activeMatches, spellsCast,
                 pendingEnds, hist>>

\* ------------------------------------------------------ endMatch, resumed
SqlOutcomes == {"ok", "no_session", "sql_error"}

ActivePlayers(pl) ==
  {p \in Players : pl[p].present /\ pl[p].hp > 0 /\ ~pl[p].eliminated}

MatchEndMsg(match, winnerId) ==
  [to |-> 0, type |-> "match-end", match |-> match.id, winner |-> winnerId,
   player1 |-> [id |-> match.player1.id, hp |-> match.player1.hp,
                place |-> IF winnerId = match.player1.id THEN 1 ELSE 2,
                damageDealt |-> match.player1.damageDealt,
                damageReceived |-> match.player1.damageReceived],
   player2 |-> [id |-> match.player2.id, hp |-> match.player2.hp,
                place |-> IF winnerId = match.player2.id THEN 1 ELSE 2,
                damageDealt |-> match.player2.damageDealt,
                damageReceived |-> match.player2.damageReceived]]

TournamentEnd_winnerOnly(cs, pl, winner, p) ==
  IF pl[winner].present /\ IsOpen(cs, pl[winner].ws)
  THEN <<[to |-> pl[winner].ws, type |-> "tournament-end", winner |-> winner,
          hp |-> pl[winner].hp]>>
  ELSE <<>>

RECURSIVE TournamentEnd(_, _, _, _)
\* session.players.forEach: tournament-end to every record with an open ws
TournamentEnd(cs, pl, winner, p) ==
  IF p > NumPlayers THEN <<>>
  ELSE (IF pl[p].present /\ IsOpen(cs, pl[p].ws)
        THEN <<[to |-> pl[p].ws, type |-> "tournament-end", winner |-> winner,
                hp |-> pl[winner].hp]>>
        ELSE <<>>) \o TournamentEnd(cs, pl, winner, p + 1)

\* winnerPlayer is read outside the block that declares it
ThrowsReferenceError(match, pe) ==
  /\ pe.session
  /\ Cardinality(ActivePlayers(players)) > 1
  /\ match[WinnerSide(match, pe.winnerId)].hp > 0

\* how a rejected endMatch promise ends: the message handler catches it and
\* answers its connection; the timer and the close handler do not
Rejected(pe, msgs) ==
  /\ raised' = IF pe.kind = "hit" THEN "caught" ELSE "unhandled"
  /\ out' = msgs \o (IF pe.kind = "hit" /\ IsOpen(conns, pe.ws)
                    THEN <<ErrorMsg(pe.ws, "Invalid message format")>> ELSE <<>>)
  /\ UNCHANGED <<players, sessionActive>>

\* endMatch returned: handleDisconnection goes on to gameManager.handleDisconnect
Returned(pe, msgs) ==
  /\ raised' = "none"
  /\ out' = msgs
  /\ IF pe.kind = "disconnect" /\ sessionActive
     THEN /\ players' = DropPlayer(players, ConnUser(pe.ws))
          /\ sessionActive' = SessionLeft(players')
     ELSE UNCHANGED <<players, sessionActive>>

\* a suspended endMatch resumes with the outcome of its storage calls
EndMatchResume(pe, outcome) ==
  /\ BagIn(pe, pendingEnds)
  /\ pendingEnds' = pendingEnds (-) SetToBag({pe})
  /\ UNCHANGED <<conns, qvars, matches, sched, spellsCast>>
  /\ LET m == pe.match
         match == matches[m]
         ended == ToBoth(conns, match, MatchEndMsg(match, pe.winnerId))
         active == ActivePlayers(players)
     IN  CASE outcome = "sql_error" ->
                /\ Rejected(pe, <<>>)
                /\ UNCHANGED <<activeMatches, hist>>
           [] outcome = "no_session" ->
                /\ Returned(pe, <<>>)
                /\ UNCHANGED <<activeMatches, hist>>
           [] outcome = "ok" ->
                /\ activeMatches' = activeMatches \ {m}
                /\ IF ThrowsReferenceError(match, pe)
                   THEN /\ Rejected(pe, ended)
                        /\ hist' = [hist EXCEPT ![m].persists = @ + 1,
                                                ![m].ends = @ + 1]
                   ELSE IF pe.session /\ Cardinality(active) = 1
                   THEN /\ Returned(pe, ended \o TournamentEnd(conns, players,
                                        CHOOSE p \in active : TRUE, 1))
                        /\ hist' = [hist EXCEPT ![m].persists = @ + 1,
                                                ![m].ends = @ + 1,
                                                ![m].completes = @ + 1]
                   ELSE /\ Returned(pe, ended)
                        /\ hist' = [hist EXCEPT ![m].persists = @ + 1,
                                                ![m].ends = @ + 1]

Next ==
  \/ \E ws \in Conns, sid \in Players : EnterQueue(ws, sid)
  \/ \E ws \in Conns, sid \in Players, a \in CardInputs : CardAnswer(ws, sid, a)
  \/ \E ws \in Conns : Disconnect(ws)
  \/ \E ws \in Conns, m \in MatchIds : RoundReady(ws, m)
  \/ \E ws \in Conns, m \in MatchIds, pos \in MoveInputs : PlayerMove(ws, m, pos)
  \/ \E ws \in Conns, m \in MatchIds, t \in SpellTypes : SpellCast(ws, m, t)
  \/ \E ws \in Conns, m \in MatchIds, s \in SpellIds, h \in Sides \cup {"player3"} :
       SpellHit(ws, m, s, h)
  \/ \E m \in MatchIds : FireRoundTimer(m)
  \/ \E m \in MatchIds : FireStaleRoundTimer(m)
  \/ \E m \in MatchIds : FireStartTimer(m)
  \/ \E pe \in BagToSet(pendingEnds), o \in SqlOutcomes : EndMatchResume(pe, o)

\* The whole server.  Its state graph is too large to enumerate; the claims
\* are checked on the parts below, which take the same actions with fewer
\* inputs.
SpecAll == Init /\ [][Next]_vars

\* ---------------------------------------------------- the queue on its own
\* Students enter under their own id, leave and are paired; matches end by
\* forfeit only.
NextQueue ==
  \/ \E ws \in Conns : EnterQueue(ws, ConnUser(ws))
  \/ \E ws \in Conns : Disconnect(ws)
  \/ \E pe \in BagToSet(pendingEnds), o \in SqlOutcomes : EndMatchResume(pe, o)

SpecQueue == Init /\ [][NextQueue]_vars

\* ------------------------------------------------------ one match at work
\* The state after students 1 and 2 entered the queue in that order: match 1
\* is registered with 1 as player1 and 2 as player2, student 3 is idle.
Entry(pl, sid) ==
  [studentId |-> sid, ws |-> sid, damage |-> pl[sid].damage, hp |-> pl[sid].hp]

InitPaired ==
  /\ players \in {f \in [Players -> [present : {TRUE}, ws : Conns, hp : {InitialHp},
                                    damage : StatValues, eliminated : {FALSE},
                                    inQueue : {FALSE}, matchId : {0},
                                    damageDealt : {0}, damageReceived : {0},
                                    cardsAnswered : {CardsFor(s) : s \in StatValues}]] :
                    \A p \in Players : /\ f[p].ws = p /\ (p > 2 => f[p].damage = 100)
                                        /\ f[p].cardsAnswered = CardsFor(f[p].damage)}
  /\ conns = TagConns([c \in Conns |-> [open |-> TRUE, matchId |-> 0,
                                        playerId |-> "none"]],
                      1, Entry(players, 1), Entry(players, 2))
  /\ sessionActive = TRUE
  /\ queue = <<>>
  /\ retryTimers = 0
  /\ matches = <<CreateMatch(1, Entry(players, 1), Entry(players, 2), players)>>
  /\ activeMatches = {1}
  /\ sched = <<[endRound |-> 0, startRound |-> 0]>>
  /\ spellsCast = <<0>>
  /\ pendingEnds = EmptyBag
  /\ out = <<[to |-> 2, type |-> "queue-joined", position |-> 2]>>
           \o MatchFound(conns, 1, Entry(players, 1), Entry(players, 2), "player1")
           \o MatchFound(conns, 1, Entry(players, 2), Entry(players, 1), "player2")
  /\ raised = "none"
  /\ hist = <<[writes |-> 0, persists |-> 0, ends |-> 0, completes |-> 0]>>

MatchConns == {1, 2}
HitRounds == 1
RoundSpells == 1

\* no match beyond r round starts and s spells after the step
Within(r, s) ==
  \A m \in DOMAIN matches' : matches'[m].currentRound <= r /\ spellsCast'[m] <= s

\* Spells and hit reports within one round.
NextHits ==
  \/ \E ws \in MatchConns : RoundReady(ws, 1) /\ Within(HitRounds, MaxSpells)
  \/ \E ws \in MatchConns, t \in SpellTypes : SpellCast(ws, 1, t)
  \/ \E ws \in MatchConns, s \in SpellIds, h \in Sides \cup {"player3"} :
       SpellHit(ws, 1, s, h)
  \/ FireRoundTimer(1)
  \/ FireStartTimer(1) /\ Within(HitRounds, MaxSpells)
  \/ \E pe \in BagToSet(pendingEnds), o \in SqlOutcomes : EndMatchResume(pe, o)

SpecHits == InitPaired /\ [][NextHits]_vars

\* Rounds, their timers and the end of the match, with one spell.
NextRounds ==
  \/ \E ws \in MatchConns : Disconnect(ws)
  \/ \E ws \in MatchConns : RoundReady(ws, 1)
  \/ \E ws \in MatchConns, t \in SpellTypes :
       SpellCast(ws, 1, t) /\ Within(MaxRounds, RoundSpells)
  \/ \E ws \in MatchConns, s \in 1..RoundSpells, h \in Sides : SpellHit(ws, 1, s, h)
  \/ FireRoundTimer(1)
  \/ FireStaleRoundTimer(1)
  \/ FireStartTimer(1)
  \/ \E pe \in BagToSet(pendingEnds), o \in SqlOutcomes : EndMatchResume(pe, o)

Spec == InitPaired /\ [][NextRounds]_vars

\* The session to its end: the third student may leave, the match is decided
\* by one spell or by forfeit.
NextTournament ==
  \/ \E ws \in Conns : Disconnect(ws)
  \/ \E ws \in MatchConns : RoundReady(ws, 1) /\ Within(HitRounds, RoundSpells)
  \/ \E ws \in MatchConns, t \in SpellTypes :
       SpellCast(ws, 1, t) /\ Within(HitRounds, RoundSpells)
  \/ \E ws \in MatchConns, h \in Sides : SpellHit(ws, 1, 1, h)
  \/ \E pe \in BagToSet(pendingEnds), o \in SqlOutcomes : EndMatchResume(pe, o)

SpecTournament == InitPaired /\ [][NextTournament]_vars

\* Students enter the queue while and after match 1 is fought with one spell.
NextRequeue ==
  \/ \E ws \in Conns : EnterQueue(ws, ConnUser(ws))
  \/ \E ws \in MatchConns : RoundReady(ws, 1) /\ Within(HitRounds, RoundSpells)
  \/ \E ws \in MatchConns, t \in SpellTypes :
       SpellCast(ws, 1, t) /\ Within(HitRounds, RoundSpells)
  \/ \E ws \in MatchConns, h \in Sides : SpellHit(ws, 1, 1, h)
  \/ \E pe \in BagToSet(pendingEnds), o \in SqlOutcomes : EndMatchResume(pe, o)

SpecRequeue == InitPaired /\ [][NextRequeue]_vars

\* One round in the arena: moves, one fire arrow and its hit report, sent by
\* any connection of the session.
NextArena ==
  \/ \E ws \in MatchConns : RoundReady(ws, 1) /\ Within(HitRounds, RoundSpells)
  \/ \E ws \in Conns, pos \in MoveInputs : PlayerMove(ws, 1, pos)
  \/ \E ws \in Conns : SpellCast(ws, 1, "fire_arrow") /\ Within(HitRounds, RoundSpells)
  \/ \E ws \in Conns, h \in Sides : SpellHit(ws, 1, 1, h)
  \/ FireRoundTimer(1)
  \/ \E pe \in BagToSet(pendingEnds), o \in SqlOutcomes : EndMatchResume(pe, o)

SpecArena == InitPaired /\ [][NextArena]_vars

\* The round loop: the first round is started by readiness, the later ones by
\* the timers; a side may leave at any time.  The timers of Node fire once
\* their delay is over, which is weak fairness of the two timer actions.
NextLoop ==
  \/ \E ws \in MatchConns : RoundReady(ws, 1) /\ matches[1].currentRound = 0
  \/ \E ws \in MatchConns : Disconnect(ws)
  \/ FireRoundTimer(1)
  \/ FireStartTimer(1)
  \/ \E pe \in BagToSet(pendingEnds), o \in SqlOutcomes : EndMatchResume(pe, o)

SpecLoop ==
  /\ InitPaired
  /\ [][NextLoop]_vars
  /\ WF_vars(FireRoundTimer(1))
  /\ WF_vars(FireStartTimer(1))

\* ------------------------------------------------ card phase and the queue
\* Students 1 and 2, who have just joined, answer cards and enter the queue,
\* in any order.
InitJoined ==
  /\ conns = [c \in Conns |-> [open |-> TRUE, matchId |-> 0, playerId |-> "none"]]
  /\ players = [p \in Players |-> NewPlayer(p, BaseDamage)]
  /\ sessionActive = TRUE
  /\ queue = <<>>
  /\ retryTimers = 0
  /\ matches = <<>>
  /\ activeMatches = {}
  /\ sched = <<>>
  /\ spellsCast = <<>>
  /\ pendingEnds = EmptyBag
  /\ out = <<>>
  /\ raised = "none"
  /\ hist = <<>>

NextCards ==
  \/ \E ws \in MatchConns, a \in CardInputs : CardAnswer(ws, ConnUser(ws), a)
  \/ \E ws \in MatchConns : EnterQueue(ws, ConnUser(ws))

SpecCards == InitJoined /\ [][NextCards]_vars

\* ------------------------------------------- entering under any student id
\* Connections 1 and 2 enter the queue with any studentId in the payload and
\* close; one match is made.
NextAlias ==
  \/ \E ws \in MatchConns, sid \in Players :
       EnterQueue(ws, sid) /\ Len(matches') <= 1
  \/ \E ws \in MatchConns : Disconnect(ws)
  \/ \E pe \in BagToSet(pendingEnds), o \in SqlOutcomes : EndMatchResume(pe, o)

SpecAlias == Init /\ [][NextAlias]_vars

\* ================================================================ claims
SidesOf(match) == {match.player1.id, match.player2.id}

MatchCreated == Len(matches') = Len(matches) + 1

\* C1: no student has a queue entry while being a side of a registered match.
C1_QueueMatchExclusive ==
  \A i \in DOMAIN queue, m \in activeMatches :
    queue[i].studentId \notin SidesOf(matches[m])

\* C2: no student is a side of two registered matches at the same time.
C2_OneMatchPerPlayer ==
  \A m1 \in activeMatches, m2 \in activeMatches :
    m1 # m2 => SidesOf(matches[m1]) \cap SidesOf(matches[m2]) = {}

\* C3: the queue keeps the order of entry (a step appends one entry at the
\* tail, removes one entry, or pairs), and a pairing step takes the two oldest
\* entries, the older as player1, and leaves the later entrants waiting.
C3_FifoPairing ==
  [][IF MatchCreated
     THEN \E ws \in Conns, sid \in Players :
            LET q1 == Append(queue, [studentId |-> sid, ws |-> ws,
                                     damage |-> players[sid].damage,
                                     hp |-> players[sid].hp])
                new == matches'[Len(matches')]
            IN  /\ new.player1.id = q1[1].studentId
                /\ new.player1.ws = q1[1].ws
                /\ new.player2.id = q1[2].studentId
                /\ new.player2.ws = q1[2].ws
                /\ queue' = SubSeq(q1, 3, Len(q1))
     ELSE \/ queue' = queue
          \/ \E i \in DOMAIN queue : queue' = RemoveAt(queue, i)
          \/ Len(queue') = Len(queue) + 1 /\ SubSeq(queue', 1, Len(queue)) = queue
    ]_vars

\* C3 witness: (1,2) were paired, their match ended, and 3 was paired next as
\* player1 with a student who entered after 3.
C3_Witness ==
  /\ Len(matches) = 2
  /\ matches[1].player1.id = 1 /\ matches[1].player2.id = 2
  /\ matches[2].player1.id = 3
  /\ 1 \notin activeMatches

HitMsgs(seq, m) ==
  {i \in DOMAIN seq : seq[i].type = "spell-hit" /\ seq[i].match = m}

\* C4: a side's hp stays within 0..200 and never increases, and a step that
\* reports a hit leaves the target with max(0, previous hp - spell damage),
\* which is the hp the spell-hit message carries.
C4_HpAfterHit ==
  [][\A m \in DOMAIN matches :
       /\ \A s \in Sides :
            /\ matches'[m][s].hp \in 0..InitialHp
            /\ matches'[m][s].hp <= matches[m][s].hp
       /\ \A i \in HitMsgs(out', m) :
            LET msg == out'[i]
                spell == matches[m].activeSpells[SpellIndex(matches[m], msg.spellId)]
                prev == matches[m][msg.target].hp
            IN  /\ HasSpell(matches[m], msg.spellId)
                /\ msg.damage = spell.damage
                /\ matches'[m][msg.target].hp =
                     (IF prev - spell.damage > 0 THEN prev - spell.damage ELSE 0)
                /\ msg.remainingHp = matches'[m][msg.target].hp
                /\ msg.player1Hp = matches'[m].player1.hp
                /\ msg.player2Hp = matches'[m].player2.hp
    ]_vars

\* C4 witness: a hit whose damage exceeded the hp left, clamped to 0.
C4_Witness ==
  \E i \in DOMAIN out :
    /\ out[i].type = "spell-hit"
    /\ out[i].oldHp > 0
    /\ out[i].oldHp - out[i].damage < 0
    /\ out[i].remainingHp = 0

Tally(match) ==
  <<match.player1.hp, match.player2.hp,
    match.player1.damageDealt, match.player2.damageDealt,
    match.player1.damageReceived, match.player2.damageReceived>>

\* C5: hp and damage counters change, and spell-hit is sent, only in a step
\* that takes the reported spell out of activeSpells; a spell taken out never
\* returns, so a spell is applied once and a report of a spell that is not
\* active changes nothing.
C5_HitIdempotent ==
  [][\A m \in DOMAIN matches :
       /\ (Tally(matches'[m]) # Tally(matches[m]) \/ HitMsgs(out', m) # {}) =>
            \E id \in SpellIds :
              /\ HasSpell(matches[m], id)
              /\ ~HasSpell(matches'[m], id)
              /\ \A i \in HitMsgs(out', m) : out'[i].spellId = id
       /\ \A id \in SpellIds :
            ~HasSpell(matches[m], id) /\ id <= spellsCast[m] =>
              ~HasSpell(matches'[m], id)
    ]_vars

\* C5 witness: spell 1 was reported and taken out while spell 2 is still
\* active, and the last step (a further report among them) changed nothing.
C5_Witness ==
  /\ spellsCast[1] = 2
  /\ ~HasSpell(matches[1], 1)
  /\ HasSpell(matches[1], 2)
  /\ matches[1].player2.damageReceived > 0
  /\ out = <<>>

TimerFires(m) == FireRoundTimer(m) \/ FireStaleRoundTimer(m)

Eliminated(match) == match.player1.hp = 0 \/ match.player2.hp = 0

\* C6: once a hit report has brought a side to hp 0 and the match is
\* Completed, a round timer that fires changes nothing and sends nothing.
C6_StaleTimerNoOp ==
  [][\A m \in DOMAIN matches :
       matches[m].status = "completed" /\ Eliminated(matches[m]) /\ TimerFires(m) =>
         /\ out' = <<>>
         /\ matches'[m].status = "completed"
         /\ Tally(matches'[m]) = Tally(matches[m])
         /\ UNCHANGED <<players, pendingEnds, hist>>
    ]_vars

Added(pe) == CopiesIn(pe, pendingEnds') > CopiesIn(pe, pendingEnds)

\* C7: an endMatch called by a lethal hit report names as winner the side
\* that has hp left, and the loser is the side at hp 0.
C7_WinnerHasHp ==
  [][\A pe \in BagToSet(pendingEnds') :
       Added(pe) /\ pe.kind = "hit" =>
         LET match == matches'[pe.match]
             w == WinnerSide(match, pe.winnerId)
         IN  match[w].hp > 0 /\ match[Other(w)].hp = 0
    ]_vars

\* C8: a match writes back the tournament records, persists its result and
\* broadcasts match-end at most once.
C8_EndMatchOnce ==
  \A m \in DOMAIN hist :
    hist[m].writes <= 1 /\ hist[m].persists <= 1 /\ hist[m].ends <= 1

StatusSteps ==
  {<<"waiting", "active">>, <<"active", "waiting">>,
   <<"waiting", "completed">>, <<"active", "completed">>}

\* C9: the status moves only Waiting->Active, Active->Waiting,
\* Waiting->Completed or Active->Completed, and no round starts while the
\* status is Active.
C9_StatusTransitions ==
  [][\A m \in DOMAIN matches :
       /\ matches'[m].status # matches[m].status =>
            <<matches[m].status, matches'[m].status>> \in StatusSteps
       /\ matches'[m].currentRound # matches[m].currentRound =>
            matches[m].status # "active"
    ]_vars

InFlight(m) == \E pe \in BagToSet(pendingEnds) : pe.match = m

\* C10: while an endMatch of a match is suspended, no other operation changes
\* the match.
C10_MatchSerialized ==
  [][\A m \in DOMAIN matches :
       InFlight(m) => matches'[m] = matches[m]
    ]_vars

MsgsOf(seq, m, type) ==
  {i \in DOMAIN seq : seq[i].type = type /\ seq[i].match = m}

\* C11: once endMatch has set a match to Completed, the deferred startRound of
\* the last endRound starts no round: no round-start is sent, the round
\* counter keeps its value, the status stays Completed and no timer is armed.
C11_DeferralCancelled ==
  [][\A m \in DOMAIN matches :
       matches[m].status = "completed" /\ FireStartTimer(m) =>
         /\ MsgsOf(out', m, "round-start") = {}
         /\ matches'[m].currentRound = matches[m].currentRound
         /\ matches'[m].status = "completed"
         /\ matches'[m].roundTimer # "armed"
    ]_vars

\* C12: an endRound that runs while the status is not Active changes nothing:
\* no round-end is sent, the status and the tallies stay, no startRound is
\* deferred and endMatch is not called.
C12_EndRoundOnlyActive ==
  [][\A m \in DOMAIN matches :
       matches[m].status # "active" /\ TimerFires(m) =>
         /\ MsgsOf(out', m, "round-end") = {}
         /\ matches'[m].status = matches[m].status
         /\ matches'[m].currentRound = matches[m].currentRound
         /\ Tally(matches'[m]) = Tally(matches[m])
         /\ sched'[m].startRound = sched[m].startRound
         /\ UNCHANGED <<players, pendingEnds, hist>>
    ]_vars

InputOn(m) ==
  \/ \E ws \in Conns : RoundReady(ws, m)
  \/ \E ws \in Conns, pos \in MoveInputs : PlayerMove(ws, m, pos)
  \/ \E ws \in Conns, t \in SpellTypes : SpellCast(ws, m, t)
  \/ \E ws \in Conns, s \in SpellIds, h \in Sides : SpellHit(ws, m, s, h)

\* C13: a round-ready, player-move, spell-cast or spell-hit addressed to a
\* Completed match leaves the match as it is and sends nothing.
C13_CompletedIgnoresInput ==
  [][\A m \in DOMAIN matches :
       matches[m].status = "completed" /\ InputOn(m) =>
         /\ matches'[m] = matches[m]
         /\ out' = <<>>
    ]_vars

\* C14: when the connection of a side of a registered Waiting or Active match
\* closes, endMatch is called for that match with the other side as winner,
\* whatever the hp; the record of the side that left is eliminated with hp 0
\* and the step does not mark the record of the other side eliminated.
C14_DisconnectForfeits ==
  [][\A ws \in Conns, m \in activeMatches, s \in Sides :
       /\ matches[m].status \in {"waiting", "active"}
       /\ matches[m][s].ws = ws
       /\ Disconnect(ws)
       => LET left == matches[m][s].id
              stays == matches[m][Other(s)].id
          IN  /\ matches'[m].status = "completed"
              /\ \E pe \in BagToSet(pendingEnds') :
                   Added(pe) /\ pe.match = m /\ pe.winnerId = stays
              /\ players'[left].eliminated /\ players'[left].hp = 0
              /\ players'[stays].eliminated => players[stays].eliminated
    ]_vars

\* C15: an endMatch call sets the record of the winner to the winner's hp in
\* the match without marking it eliminated, and sets the record of the loser
\* to hp 0 and eliminated whatever the loser's hp in the match.
C15_RecordsAtEnd ==
  [][\A pe \in BagToSet(pendingEnds') :
       Added(pe) /\ pe.session =>
         LET match == matches'[pe.match]
             winner == match[WinnerSide(match, pe.winnerId)]
             loser == match[Other(WinnerSide(match, pe.winnerId))]
         IN  /\ players'[winner.id].present =>
                  /\ players'[winner.id].hp = winner.hp
                  /\ players'[winner.id].eliminated = players[winner.id].eliminated
             /\ players'[loser.id].present =>
                  /\ players'[loser.id].hp = 0
                  /\ players'[loser.id].eliminated
    ]_vars

\* C15 witness: a side forfeited with hp left in the match; its record is at
\* hp 0 and eliminated, the winner's record carries the winner's reduced hp.
C15_Witness ==
  \E pe \in BagToSet(pendingEnds) :
    LET match == matches[pe.match]
        winner == match[WinnerSide(match, pe.winnerId)]
        loser == match[Other(WinnerSide(match, pe.winnerId))]
    IN  /\ hist[pe.match].writes = 1
        /\ winner.hp > 0 /\ winner.hp < InitialHp
        /\ players[winner.id].present
        /\ players[winner.id].hp = winner.hp
        /\ ~players[winner.id].eliminated
        /\ loser.hp > 0
        /\ players[loser.id].present
        /\ players[loser.id].hp = 0
        /\ players[loser.id].eliminated

\* C16: an endMatch call adds, for each of the two sides, the side's
\* damageDealt and damageReceived of the match to the side's record.
C16_DamageTotalsBothSides ==
  [][\A pe \in BagToSet(pendingEnds') :
       Added(pe) /\ pe.session =>
         \A s \in Sides :
           LET side == matches'[pe.match][s]
           IN  players'[side.id].present =>
                 /\ players'[side.id].damageDealt =
                      players[side.id].damageDealt + side.damageDealt
                 /\ players'[side.id].damageReceived =
                      players[side.id].damageReceived + side.damageReceived
    ]_vars

StorageFailures == {"no_session", "sql_error"}

\* C17: when a storage call of endMatch fails or finds no stored session, the
\* call still broadcasts match-end to the open sides and deregisters the
\* match.
C17_StorageFailureProceeds ==
  [][\A pe \in BagToSet(pendingEnds), o \in StorageFailures :
       EndMatchResume(pe, o) =>
         /\ pe.match \notin activeMatches'
         /\ \A s \in Sides :
              IsOpen(conns, matches[pe.match][s].ws) =>
                \E i \in MsgsOf(out', pe.match, "match-end") :
                  out'[i].to = matches[pe.match][s].ws
    ]_vars

\* C18: an endMatch whose storage calls succeed runs to its end without
\* raising an error, whether the tournament ends or goes on.
C18_EndMatchNeverThrows ==
  [][\A pe \in BagToSet(pendingEnds) :
       EndMatchResume(pe, "ok") => raised' = "none"
    ]_vars

TournamentEndMsgs(seq) == {i \in DOMAIN seq : seq[i].type = "tournament-end"}

\* C19: when endMatch has deregistered its match and exactly one record of the
\* session is not eliminated with hp > 0, every record with an open connection
\* is sent tournament-end naming that player, nobody else is named, and the
\* stored session is set to completed; when more than one such record is
\* left, no tournament-end is sent.
C19_TournamentEnd ==
  [][\A pe \in BagToSet(pendingEnds) :
       EndMatchResume(pe, "ok") =>
         LET active == ActivePlayers(players)
         IN  /\ Cardinality(active) = 1 =>
                  /\ \A p \in Players :
                       players[p].present /\ IsOpen(conns, players[p].ws) =>
                         \E i \in TournamentEndMsgs(out') :
                           out'[i].to = players[p].ws
                  /\ \A i \in TournamentEndMsgs(out') : out'[i].winner \in active
                  /\ hist'[pe.match].completes = hist[pe.match].completes + 1
             /\ Cardinality(active) > 1 =>
                  /\ TournamentEndMsgs(out') = {}
                  /\ hist'[pe.match].completes = hist[pe.match].completes
    ]_vars

\* C19 witness: the third student left, the match was decided by a hit, and
\* winner and loser, both connected, were sent tournament-end.
C19_Witness ==
  /\ hist[1].completes = 1
  /\ \E i, j \in TournamentEndMsgs(out) : out[i].to # out[j].to

\* C20: the queue never holds two entries of one student, and an enter-queue
\* for a student who has an entry is answered with 'Already in queue' and
\* leaves the queue, the entry and the tournament records as they are.
C20_AlreadyQueued ==
  [][/\ \A i, j \in DOMAIN queue' :
          queue'[i].studentId = queue'[j].studentId => i = j
     /\ \A ws \in Conns, sid \in Players :
          (\E i \in DOMAIN queue : queue[i].studentId = sid) /\ EnterQueue(ws, sid) =>
            /\ out' = <<ErrorMsg(ws, "Already in queue")>>
            /\ queue' = queue
            /\ players' = players
    ]_vars

\* C20 witness: a student with an entry asked again and was refused.
C20_Witness ==
  /\ Len(queue) = 1
  /\ out = <<ErrorMsg(queue[1].ws, "Already in queue")>>
  /\ players[queue[1].studentId].inQueue

IsErrorTo(seq, ws) == Len(seq) = 1 /\ seq[1].type = "error" /\ seq[1].to = ws

\* C21: an enter-queue for a student whose record is eliminated or at hp <= 0
\* is answered with one error message; the queue, the records (inQueue and
\* the match reference among them) and the matches stay as they are.
C21_EliminatedRejected ==
  [][\A ws \in Conns, sid \in Players :
       /\ players[sid].present
       /\ players[sid].eliminated \/ players[sid].hp <= 0
       /\ EnterQueue(ws, sid)
       => /\ IsErrorTo(out', ws)
          /\ queue' = queue
          /\ players' = players
          /\ UNCHANGED mvars
    ]_vars

\* C21 witness: the loser of match 1, still connected, asked to enter and was
\* refused as eliminated.
C21_Witness ==
  \E ws \in Conns :
    /\ out = <<ErrorMsg(ws, "You have been eliminated from the tournament")>>
    /\ players[ConnUser(ws)].eliminated
    /\ ~players[ConnUser(ws)].inQueue
    /\ queue = <<>>

\* C22: an enter-queue for a student who is a side of a registered match is
\* answered with an error; no entry is appended and the records stay as they
\* are.
C22_InMatchRejected ==
  [][\A ws \in Conns, sid \in Players :
       /\ \E m \in activeMatches : sid \in SidesOf(matches[m])
       /\ EnterQueue(ws, sid)
       => /\ IsErrorTo(out', ws)
          /\ queue' = queue
          /\ players' = players
    ]_vars

\* C23: no match is created with a side whose record is eliminated or at
\* hp <= 0 at the moment of creation.
C23_EliminatedNeverPaired ==
  [][MatchCreated =>
       \A s \in Sides :
         LET rec == players'[matches'[Len(matches')][s].id]
         IN  rec.present => ~rec.eliminated /\ rec.hp > 0
    ]_vars

InHalf(pos, side) ==
  /\ (IF side = "player1" THEN 0 ELSE ArenaMidX) <= pos.x
  /\ pos.x <= (IF side = "player1" THEN ArenaMidX ELSE ArenaMaxX)
  /\ 0 <= pos.y
  /\ pos.y <= ArenaMaxY

\* C24: in every state the stored position of player1 has 0 <= x <= 400, that
\* of player2 has 400 <= x <= 800, and both have 0 <= y <= 600.
C24_PositionsInHalves ==
  \A m \in DOMAIN matches :
    \A s \in Sides : InHalf(matches[m][s].position, s)

\* d = floor(1.5 * s)
IsFloorOfOneAndHalf(d, s) == 2 * d <= 3 * s /\ 3 * s < 2 * d + 2

RightDamage(type, d, s) ==
  /\ d >= 0
  /\ type = "fire_arrow" => d = s
  /\ type = "water_spell" => IsFloorOfOneAndHalf(d, s)

\* C25: for every stat s in 0..MaxStat a fire_arrow has damage s and a
\* water_spell has damage floor(1.5 s) (10 gives 15, 5 gives 7); a cast stores
\* that damage, a non-negative integer, computed from the caster's stat on
\* the spell, and a hit report subtracts the damage stored on the spell.
C25_SpellDamage ==
  [][/\ \A s \in 0..MaxStat, t \in SpellTypes :
          RightDamage(t, CalculateSpellDamage(t, s), s)
     /\ CalculateSpellDamage("water_spell", 10) = 15
     /\ CalculateSpellDamage("water_spell", 5) = 7
     /\ \A m \in DOMAIN matches :
          /\ spellsCast'[m] = spellsCast[m] + 1 =>
               LET spell == matches'[m].activeSpells[Len(matches'[m].activeSpells)]
               IN  /\ spell.damage \in Nat
                   /\ RightDamage(spell.type, spell.damage,
                                  matches[m][spell.owner].damage)
          /\ \A i \in HitMsgs(out', m) :
               LET spell == matches[m].activeSpells[
                              SpellIndex(matches[m], out'[i].spellId)]
                   prev == matches[m][out'[i].target].hp
               IN  matches'[m][out'[i].target].hp = Max(0, prev - spell.damage)
    ]_vars

\* C25 witness: a water_spell cast with stat 100 hit for 150 and left 50 hp.
C25_Witness ==
  \E i \in DOMAIN out :
    /\ out[i].type = "spell-hit"
    /\ out[i].damage = 150
    /\ out[i].oldHp = InitialHp
    /\ out[i].remainingHp = 50

\* C26: nobody waits while a pair exists: the accepted enter-queue that makes
\* the second entry pairs the two entries within the same step, the waiting
\* student as player1, so the queue never rests with two or more entries and
\* no deferred retry is ever pending.
C26_PairedAtOnce ==
  [][/\ Len(queue') < 2
     /\ retryTimers' = 0
     /\ \A ws \in Conns, sid \in Players :
          /\ Len(queue) = 1
          /\ EnterQueue(ws, sid)
          /\ out' # <<>>
          /\ out'[1].type = "queue-joined"
          => /\ MatchCreated
             /\ matches'[Len(matches')].player1.id = queue[1].studentId
             /\ matches'[Len(matches')].player2.id = sid
             /\ matches'[Len(matches')].id \in activeMatches'
    ]_vars

\* C26 witness: the enter that made the second entry was answered with
\* queue-joined at position 2 and match-found, and the queue is empty again.
C26_Witness ==
  /\ queue = <<>>
  /\ Len(out) = 3
  /\ out[1].type = "queue-joined" /\ out[1].position = 2
  /\ out[2].type = "match-found" /\ out[3].type = "match-found"
  /\ Len(matches) = 2

RoundEvents == {"round-start", "round-end", "match-end"}

\* the round events of match m that seq delivers to connection ws, in order
EventsTo(seq, ws, m) ==
  LET Keep(x) == x.type \in RoundEvents /\ x.match = m /\ x.to = ws
      sel == SelectSeq(seq, Keep)
  IN  [i \in 1..Len(sel) |-> [sel[i] EXCEPT !.to = 0]]

BothOpen(cs, match) ==
  /\ match.player1.ws # match.player2.ws
  /\ IsOpen(cs, match.player1.ws)
  /\ IsOpen(cs, match.player2.ws)

\* C27: while both connections of a match are open, every step delivers the
\* same round-start, round-end and match-end events, with the same contents
\* and in the same order, to player1 and to player2.
C27_SameEventOrder ==
  [][\A m \in DOMAIN matches :
       BothOpen(conns, matches[m]) /\ BothOpen(conns', matches[m]) =>
         EventsTo(out', matches[m].player1.ws, m) =
           EventsTo(out', matches[m].player2.ws, m)
    ]_vars

\* C27 witness: match-end of match 1 was delivered to both open sides.
C27_Witness ==
  /\ BothOpen(conns, matches[1])
  /\ \E i \in DOMAIN EventsTo(out, 1, 1) : EventsTo(out, 1, 1)[i].type = "match-end"
  /\ EventsTo(out, 1, 1) = EventsTo(out, 2, 1)

BothAlive(match) == match.player1.hp > 0 /\ match.player2.hp > 0

\* C28: a registered match that is Active eventually leaves Active; a round
\* timer that ends an Active round with both sides alive sets the match
\* Waiting, broadcasts round-end and defers the next startRound; and after
\* such a round the next round eventually starts unless the match is ended.
C28_RoundLoop ==
  /\ [][/\ Registered(1)
        /\ matches[1].status = "active"
        /\ BothAlive(matches[1])
        /\ FireRoundTimer(1)
        => /\ matches'[1].status = "waiting"
           /\ \A ws \in MatchConns :
                IsOpen(conns, ws) =>
                  \E i \in MsgsOf(out', 1, "round-end") :
                    out'[i].to = ws /\ out'[i].round = matches[1].currentRound
           /\ sched'[1].startRound = sched[1].startRound + 1
       ]_vars
  /\ (Registered(1) /\ matches[1].status = "active")
       ~> (~Registered(1) \/ matches[1].status # "active")
  /\ \A r \in 1..(MaxRounds - 1) :
       (Registered(1) /\ matches[1].status = "waiting"
                      /\ matches[1].currentRound = r)
         ~> \/ matches[1].currentRound = r + 1
            \/ matches[1].status = "completed"
            \/ ~Registered(1)

\* C28 witness: round 1 ended by its timer and round 2 was started by the
\* deferred startRound, with nobody gone.
C28_Witness ==
  /\ Registered(1)
  /\ matches[1].status = "active"
  /\ matches[1].currentRound = 2
  /\ hist[1].writes = 0
  /\ MsgsOf(out, 1, "round-start") # {}

InputFrom(ws, m) ==
  \/ RoundReady(ws, m)
  \/ \E pos \in MoveInputs : PlayerMove(ws, m, pos)
  \/ \E t \in SpellTypes : SpellCast(ws, m, t)
  \/ \E s \in SpellIds, h \in Sides : SpellHit(ws, m, s, h)

\* C29: a round-ready, player-move, spell-cast or spell-hit sent by a
\* connection that is not one of the two connections of a match leaves that
\* match as it is.
C29_OnlyOwnMatch ==
  [][\A ws \in Conns, m \in DOMAIN matches :
       /\ ws \notin {matches[m].player1.ws, matches[m].player2.ws}
       /\ InputFrom(ws, m)
       => matches'[m] = matches[m]
    ]_vars

\* C30: a round-ready for a match that is not Waiting sets no ready flag and
\* starts no round, and a round-ready starts a round only when the match is
\* Waiting and both sides are ready.
C30_ReadyOnlyWaiting ==
  [][\A ws \in Conns, m \in DOMAIN matches :
       RoundReady(ws, m) =>
         /\ matches[m].status # "waiting" =>
              /\ matches'[m].player1.ready = matches[m].player1.ready
              /\ matches'[m].player2.ready = matches[m].player2.ready
              /\ matches'[m].currentRound = matches[m].currentRound
         /\ matches'[m].currentRound # matches[m].currentRound =>
              /\ matches[m].status = "waiting"
              /\ matches[m].player1.ready \/ SideOf(ws) = "player1"
              /\ matches[m].player2.ready \/ SideOf(ws) = "player2"
    ]_vars

RoundStarted(m) ==
  \/ matches'[m].currentRound # matches[m].currentRound
  \/ MsgsOf(out', m, "round-start") # {}

\* C31: a round start raises the round counter by exactly one, clears both
\* ready flags and activeSpells (no spell cast so far is active after it),
\* arms the round timer and sends every open side one round-start with the
\* new round number and both stored hp; as every start adds one to a counter
\* that begins at 0, successive round-start events carry 1, 2, 3, ...
C31_RoundStart ==
  [][\A m \in DOMAIN matches :
       RoundStarted(m) =>
         LET new == matches'[m]
         IN  /\ new.currentRound = matches[m].currentRound + 1
             /\ ~new.player1.ready /\ ~new.player2.ready
             /\ new.activeSpells = <<>>
             /\ \A id \in 1..spellsCast'[m] : ~HasSpell(new, id)
             /\ new.roundTimer = "armed"
             /\ new.status = "active"
             /\ \A i \in MsgsOf(out', m, "round-start") :
                  /\ out'[i].round = new.currentRound
                  /\ out'[i].player1Hp = new.player1.hp
                  /\ out'[i].player2Hp = new.player2.hp
             /\ \A s \in Sides :
                  IsOpen(conns', new[s].ws) =>
                    Cardinality({i \in MsgsOf(out', m, "round-start") :
                                   out'[i].to = new[s].ws}) = 1
    ]_vars

\* C31 witness: round 2 began and cleared the spell cast, and never reported,
\* in round 1.
C31_Witness ==
  /\ matches[1].currentRound = 2
  /\ spellsCast[1] = 1
  /\ matches[1].activeSpells = <<>>
  /\ matches[1].player1.damageReceived = 0
  /\ matches[1].player2.damageReceived = 0
  /\ \E i \in MsgsOf(out, 1, "round-start") : out[i].round = 2

NotActive(m) == ~Registered(m) \/ matches[m].status # "active"

\* C32: a player-move or spell-cast for a match that is not registered or not
\* Active changes no match and sends nothing; an accepted player-move sends
\* opponent-move with the stored, clamped position to the opponent's
\* connection and nothing to the mover.
C32_MoveCastOnlyActive ==
  [][\A ws \in Conns, m \in MatchIds :
       /\ (/\ NotActive(m)
           /\ \/ \E pos \in MoveInputs : PlayerMove(ws, m, pos)
              \/ \E t \in SpellTypes : SpellCast(ws, m, t))
          => matches' = matches /\ out' = <<>>
       /\ \A pos \in MoveInputs :
            PlayerMove(ws, m, pos) /\ ~NotActive(m) /\ SideOf(ws) \in Sides =>
              LET side == SideOf(ws)
                  opp == matches[m][Other(side)].ws
              IN  /\ matches'[m][side].position = ValidatePosition(pos, side)
                  /\ \A i \in DOMAIN out' :
                       /\ out'[i].to = opp /\ out'[i].to # ws
                       /\ out'[i].type = "opponent-move"
                       /\ out'[i].position = matches'[m][side].position
                  /\ IsOpen(conns, opp) => Len(out') = 1
    ]_vars

\* C32 witness: player1 reported (-50, 700) in an Active round; (0, 600) was
\* stored and sent to player2 alone.
C32_Witness ==
  /\ matches[1].status = "active"
  /\ matches[1].player1.position = [x |-> 0, y |-> ArenaMaxY]
  /\ out = <<[to |-> 2, type |-> "opponent-move", match |-> 1,
              position |-> [x |-> 0, y |-> ArenaMaxY], playerId |-> "player1"]>>

\* C33: a spell-hit for a match that is Waiting changes no hp and no tally,
\* removes no spell, ends no match and sends nothing.
C33_HitOnlyActive ==
  [][\A m \in DOMAIN matches :
       /\ matches[m].status = "waiting"
       /\ \E ws \in Conns, s \in SpellIds, h \in Sides : SpellHit(ws, m, s, h)
       => /\ matches'[m] = matches[m]
          /\ pendingEnds' = pendingEnds
          /\ out' = <<>>
    ]_vars

Created == {m \in DOMAIN matches' : m \notin DOMAIN matches}

\* C34: when a match is created, each side's hp and combat stat equal the hp
\* and combat stat of that player's tournament record at that moment.
C34_SeededFromRecord ==
  [][\A m \in Created : \A s \in Sides :
       LET side == matches'[m][s]
           rec == players'[side.id]
       IN  rec.present => side.hp = rec.hp /\ side.damage = rec.damage
    ]_vars

\* C35: a round-ready, player-move, spell-cast or spell-hit naming a match
\* that is not registered, and a spell-hit naming a spell that is not in
\* activeSpells, change no match, queue or record and are answered with one
\* error message to the sender.
C35_UnknownReported ==
  [][\A ws \in Conns, m \in MatchIds :
       \/ ~Registered(m) /\ InputFrom(ws, m)
       \/ /\ Registered(m)
          /\ \E s \in SpellIds, h \in Sides :
               ~HasSpell(matches[m], s) /\ SpellHit(ws, m, s, h)
       => /\ matches' = matches /\ queue' = queue /\ players' = players
          /\ IsErrorTo(out', ws)
    ]_vars

\* C36: when the disconnect handling of a connection is done, no queue entry
\* has that connection as its channel, whatever studentId the entry was made
\* under; so no match is created with a closed connection.
C36_EntryGoneOnDisconnect ==
  [][/\ \A ws \in Conns :
          Disconnect(ws) => \A i \in DOMAIN queue' : queue'[i].ws # ws
     /\ \A m \in Created : \A s \in Sides : IsOpen(conns', matches'[m][s].ws)
    ]_vars

\* C37: per match no round timer is pending besides the one held in
\* match.roundTimer, and at most one deferred startRound is pending.
C37_OneTimerEach ==
  \A m \in DOMAIN matches :
    /\ sched[m].endRound = 0
    /\ sched[m].startRound <= 1

\* C38: every reported hit lowers the hp of the side opposite the spell's
\* owner, so no side's damageDealt grows together with its own
\* damageReceived.
C38_HitsOpponentOnly ==
  [][\A m \in DOMAIN matches :
       /\ \A i \in HitMsgs(out', m) :
            LET spell == matches[m].activeSpells[SpellIndex(matches[m],
                                                            out'[i].spellId)]
            IN  out'[i].target = Other(spell.owner)
       /\ \A s \in Sides :
            matches'[m][s].damageDealt > matches[m][s].damageDealt =>
              matches'[m][s].damageReceived = matches[m][s].damageReceived
    ]_vars

\* C39: no step raises the hp of a tournament record, and the record of an
\* eliminated player stays eliminated at hp 0.
C39_RecordHpMonotone ==
  [][\A p \in Players :
       players[p].present /\ players'[p].present =>
         /\ players'[p].hp <= players[p].hp
         /\ players[p].eliminated =>
              players'[p].eliminated /\ players'[p].hp = 0
    ]_vars

\* C40: a match has one outcome: the endMatch calls of a match all name the
\* same winner, a match-end message gives the winner place 1 and the other
\* side place 2, and the two players of a match are never both marked
\* eliminated in the tournament records.
C40_OneOutcome ==
  \A m \in DOMAIN matches :
    /\ \A a, b \in BagToSet(pendingEnds) :
         a.match = m /\ b.match = m => a.winnerId = b.winnerId
    /\ \A i \in MsgsOf(out, m, "match-end") :
         LET w == WinnerSide(matches[m], out[i].winner)
         IN  out[i][w].place = 1 /\ out[i][Other(w)].place = 2
    /\ ~(/\ players[matches[m].player1.id].eliminated
         /\ players[matches[m].player2.id].eliminated)
====
